---- MODULE Spec2Model ----
(***************************************************************************)
(* A model of src/app.py: the two registered operations                    *)
(* convert_omero_file and convert_tiff_file, with the helper               *)
(* load_as_xarray.  One behaviour of the model is one call of one of the   *)
(* operations.  The decoder (tifffile, bioformats_ome) and the remote      *)
(* service (create_*, from_xarray) are collaborators: the decoder's        *)
(* answers are part of the input, a remote call either returns a fragment  *)
(* or raises.                                                              *)
(***************************************************************************)
EXTENDS Integers, Sequences, FiniteSets, TLC

(***************************************************************************)
(* Bounds of the model.                                                    *)
(***************************************************************************)
MaxImages == 2
MaxChannels == 2
MaxPlanes == 2
MaxInstruments == 2
MaxNdim == 6
MaxSide == 3

(***************************************************************************)
(* Numbers of the program.                                                 *)
(***************************************************************************)
NDims == 5
FixedZ == 1
MicrosPerSecond == 1000000

(***************************************************************************)
(* Python values.  An Optional value is None or Some(v); a Python          *)
(* exception is named by its class.                                        *)
(***************************************************************************)
None == <<>>
Some(v) == <<v>>

\* bool(s) of an Optional[str]: None and "" are falsy.
TruthyStr(o) == o # None /\ o[1] # ""

\* `v or 0` of an Optional number: None and 0 both give 0.
OrZero(o) == IF o = None \/ o[1] = 0 THEN 0 ELSE o[1]

SeqsUpTo(S, n) == UNION {[1..m -> S] : m \in 0..n}

Digit == <<"0", "1", "2", "3", "4", "5", "6", "7", "8", "9">>

\* str(n) of a natural number, as the sequence of its decimal digits.
RECURSIVE DecTokens(_)
DecTokens(n) ==
    IF n < 10 THEN <<Digit[n + 1]>>
    ELSE DecTokens(n \div 10) \o <<Digit[(n % 10) + 1]>>

\* enum.value of ome_types' acquisition modes and media (the members used here).
EnumValue(m) ==
    CASE m = "WIDE_FIELD" -> "WideField"
      [] m = "OTHER" -> "Other"
      [] m = "OIL" -> "Oil"
      [] m = "AIR" -> "Air"

\* str.upper() on the enum values above.
Upper(s) ==
    CASE s = "WideField" -> "WIDEFIELD"
      [] s = "Other" -> "OTHER"
      [] s = "Oil" -> "OIL"
      [] s = "Air" -> "AIR"

\* Color.as_rgb(): the colour rendered as an rgb(...) value.
AsRgb(c) == [fmt |-> "rgb", r |-> c[1], g |-> c[2], b |-> c[3]]

(***************************************************************************)
(* load_as_xarray and the normalisation of a simple stack.                 *)
(***************************************************************************)
SupportedSuffixes == {".stk", ".tif", ".tiff", ".TIF"}

\* path.endswith((".stk", ".tif", ".tiff", ".TIF")); a path is modelled by
\* its suffix from the last dot on.
EndsWithWrong(path) == path.ext \in {".stk", ".tif", ".tiff", ".TIF", ".czi"}
EndsWithSupported(path) == path.ext \in SupportedSuffixes

\* (1,) * n: the empty tuple when n <= 0.
Ones(n) == IF n <= 0 THEN <<>> ELSE [i \in 1..n |-> 1]

\* image.reshape((1,) * (5 - image.ndim) + image.shape): the new shape.
ReshapeAppend(shape) == shape \o Ones(NDims - Len(shape))
Reshape(shape) == Ones(NDims - Len(shape)) \o shape

CTZYX == <<"c", "t", "z", "y", "x">>

\* xr.DataArray(image, dims=list("ctzyx")): ValueError unless image has one
\* dimension per name.
DataArray(shape) ==
    IF Len(shape) = Len(CTZYX)
    THEN [error |-> None, array |-> Some([shape |-> shape, dims |-> CTZYX])]
    ELSE [error |-> Some("ValueError"), array |-> None]

\* tifffile.imread followed by the reshape and the DataArray construction.
\* `disk` is what the decoder finds in the file: a pixel array, or nothing
\* readable.
ReadStack(disk) ==
    IF disk.shape = None
    THEN [error |-> Some("DecodeError"), array |-> None]
    ELSE DataArray(Reshape(disk.shape[1]))

\* load_as_xarray reads neither `series` nor `pixels`: the declared sizes of
\* the series play no part in the array it returns.
LoadSwapping(path, series, pixels, disk) ==
    IF EndsWithSupported(path)
    THEN IF disk.shape = None
         THEN [error |-> Some("DecodeError"), array |-> None]
         ELSE LET s == Reshape(disk.shape[1]) IN
              IF /\ Len(s) = NDims
                 /\ s[4] = pixels.size_y /\ s[5] = pixels.size_x
                 /\ pixels.size_x # pixels.size_y
              THEN DataArray(<<s[1], s[2], s[3], s[5], s[4]>>)
              ELSE DataArray(s)
    ELSE [error |-> Some("NotImplementedError"), array |-> None]
load_as_xarray(path, series, pixels, disk) ==
    IF EndsWithSupported(path)
    THEN ReadStack(disk)
    ELSE [error |-> Some("NotImplementedError"), array |-> None]

(***************************************************************************)
(* The records convert_omero_file builds for one image.                    *)
(***************************************************************************)
\* create_instrument(name=..., lot_number=..., serial_number=..., manufacturer=...)
InstrumentArgs(instrument) ==
    [name |-> instrument.id,
     lot_number |-> IF instrument.microscope # None
                    THEN instrument.microscope[1].lot_number ELSE None,
     serial_number |-> IF instrument.microscope # None
                       THEN instrument.microscope[1].serial_number ELSE None,
     manufacturer |-> IF instrument.microscope # None
                      THEN instrument.microscope[1].manufacturer ELSE None]

\* `if instrument.id:`
RegistersAlways(instrument) == TRUE
Registers(instrument) == instrument.id # ""

\* instrument_map[instrument.id] = fragment
MapPut(map, key, frag) ==
    [x \in DOMAIN map \cup {key} |-> IF x = key THEN frag ELSE map[x]]

\* instrument_map.get(key, None)
MapGet(map, key) == IF key \in DOMAIN map THEN Some(map[key]) ELSE None

\* `if stage and position_from_planes and len(pixels.planes) > 0:`
PositionEnabled(args, pixels) ==
    /\ args.stage # None
    /\ args.position_from_planes
    /\ Len(pixels.planes) > 0

\* create_position(stage, x=..., y=..., z=1, tolerance=position_tolerance)
PositionArgsFromPlane(args, pixels) ==
    [stage |-> args.stage[1],
     x |-> OrZero(pixels.planes[1].position_x),
     y |-> OrZero(pixels.planes[1].position_y),
     z |-> OrZero(pixels.planes[1].position_z),
     tolerance |-> args.position_tolerance]
PositionArgs(args, pixels) ==
    [stage |-> args.stage[1],
     x |-> OrZero(pixels.planes[1].position_x),
     y |-> OrZero(pixels.planes[1].position_y),
     z |-> FixedZ,
     tolerance |-> args.position_tolerance]

\* `if era and timepoint_from_time and image.acquisition_date:`
TimepointEnabled(args, image) ==
    /\ args.era # None
    /\ args.timepoint_from_time
    /\ image.acquisition_date # None

\* (image.acquisition_date - era.start.replace(tzinfo=None)).microseconds:
\* the microsecond component of the difference; instants are microsecond counts.
DeltaT(image, era) ==
    (image.acquisition_date[1] - era.start[1]) % MicrosPerSecond

\* create_timepoint(era, delta_t=..., tolerance=timepoint_tolerance)
TimepointArgs(args, image) ==
    [era |-> args.era[1],
     delta_t |-> DeltaT(image, args.era[1]),
     tolerance |-> args.timepoint_tolerance]

\* create_channel(name=c.name or f"Channel {index}", ...)
ChannelArgs(c, index) ==
    [name |-> IF TruthyStr(c.name) THEN <<c.name[1]>>
              ELSE <<"Channel ">> \o DecTokens(index),
     emission_wavelength |-> c.emission_wavelength,
     excitation_wavelength |-> c.excitation_wavelength,
     acquisition_mode |-> IF c.acquisition_mode # None
                          THEN Some(EnumValue(c.acquisition_mode[1])) ELSE None,
     color |-> IF c.color # None THEN Some(AsRgb(c.color[1])) ELSE None]

\* RepresentationViewInput(cMin=index, cMax=index, channel=c)
ViewInput(index, channel) == [cMin |-> index, cMax |-> index, channel |-> channel]

\* `views = []` at the head of the image loop.
KeepViews(old) == old
FreshViews(old) == <<>>

\* file.name + " - " + (image.name if image.name else f"({index})")
DisplayName(file, image, index) ==
    <<file.name, " - ">> \o
    (IF TruthyStr(image.name) THEN <<image.name[1]>>
     ELSE <<"(">> \o DecTokens(index) \o <<")">>)

\* [dataset] if dataset else file.datasets
Datasets(args) ==
    IF args.dataset # None THEN <<args.dataset[1]>> ELSE args.file.datasets

PlaneInput(p) ==
    [z |-> p.the_z, c |-> p.the_c, t |-> p.the_t,
     exposureTime |-> p.exposure_time, deltaT |-> p.delta_t,
     positionX |-> p.position_x, positionY |-> p.position_y,
     positionZ |-> p.position_z]

\* ChannelInput(..., color=c.color.as_rgb()): c.color is dereferenced
\* unguarded, so a channel without a colour raises AttributeError.
ChannelInputRaises(c) == c.color = None

ChannelInput(c) ==
    [name |-> c.name,
     emmissionWavelength |-> c.emission_wavelength,
     excitationWavelength |-> c.excitation_wavelength,
     acquisitionMode |-> IF c.acquisition_mode # None
                         THEN Some(EnumValue(c.acquisition_mode[1])) ELSE None,
     color |-> AsRgb(c.color[1])]

ObjectiveSettingsInput(o) ==
    [correctionCollar |-> o.correction_collar,
     medium |-> IF o.medium # None
                THEN Some(Upper(EnumValue(o.medium[1]))) ELSE None]

ImagingEnvironmentInput(e) ==
    [airPressure |-> e.air_pressure, co2Percent |-> e.co2_percent,
     humidity |-> e.humidity, temperature |-> e.temperature]

\* The exception, if any, that evaluating the OmeroRepresentationInput raises.
OmeroInputError(image) ==
    IF \E n \in DOMAIN image.pixels.channels :
           ChannelInputRaises(image.pixels.channels[n])
    THEN Some("AttributeError")
    ELSE None

\* instrument=instrument_map.get(image.instrument_ref.id, None)
\*            if image.instrument_ref else None
InstrumentField(map, image) ==
    IF image.instrument_ref # None
    THEN MapGet(map, image.instrument_ref[1].id)
    ELSE None

\* timepoints=[timepoint] if timepoint else None (and positions alike)
ListOrNone(frag) == IF frag # None THEN Some(<<frag[1]>>) ELSE None

OmeroRepresentationInput(image, map, position, timepoint) ==
    [planes |-> [n \in DOMAIN image.pixels.planes |->
                    PlaneInput(image.pixels.planes[n])],
     timepoints |-> ListOrNone(timepoint),
     positions |-> ListOrNone(position),
     acquisitionDate |-> image.acquisition_date,
     physicalSize |-> [x |-> image.pixels.physical_size_x,
                       y |-> image.pixels.physical_size_y,
                       z |-> image.pixels.physical_size_z],
     instrument |-> InstrumentField(map, image),
     channels |-> [n \in DOMAIN image.pixels.channels |->
                      ChannelInput(image.pixels.channels[n])],
     objectiveSettings |-> IF image.objective_settings # None
                           THEN Some(ObjectiveSettingsInput(image.objective_settings[1]))
                           ELSE None,
     imagingEnvironment |-> IF image.imaging_environment # None
                            THEN Some(ImagingEnvironmentInput(image.imaging_environment[1]))
                            ELSE None]

\* images.append(rep)
ImagesPrepend(imgs, rep) == <<rep>> \o imgs
ImagesAppend(imgs, rep) == Append(imgs, rep)

\* Leaving `with file.file as f:`, normally or by an exception, closes the
\* handle.
WithExitLeak(open) == open
WithExit(open) == FALSE

(***************************************************************************)
(* The inputs of one call: the arguments, and what the decoder finds in    *)
(* the file (`disk`: the pixel array tifffile reads and the OME metadata   *)
(* bioformats_ome returns, either of which may be unreadable).             *)
(***************************************************************************)
BasePlane ==
    [the_z |-> 0, the_c |-> 0, the_t |-> 0,
     exposure_time |-> Some(10), delta_t |-> Some(0),
     position_x |-> Some(2), position_y |-> Some(3), position_z |-> Some(7)]

OtherPlane ==
    [the_z |-> 1, the_c |-> 0, the_t |-> 0,
     exposure_time |-> None, delta_t |-> None,
     position_x |-> Some(5), position_y |-> Some(6), position_z |-> Some(8)]

BaseChannel ==
    [name |-> Some("DAPI"),
     emission_wavelength |-> Some(460), excitation_wavelength |-> Some(350),
     acquisition_mode |-> Some("WIDE_FIELD"), color |-> Some(<<0, 0, 255>>)]

BasePixels ==
    [planes |-> <<BasePlane>>, channels |-> <<BaseChannel>>,
     size_c |-> 1, size_t |-> 1, size_z |-> 1, size_y |-> 2, size_x |-> 3,
     physical_size_x |-> Some(1), physical_size_y |-> Some(1),
     physical_size_z |-> None]

BaseImage ==
    [name |-> Some("A"), acquisition_date |-> Some(2500000),
     instrument_ref |-> None, objective_settings |-> None,
     imaging_environment |-> None, pixels |-> BasePixels]

\* An image that carries nothing optional: no name, date, plane or channel.
BareImage ==
    [BaseImage EXCEPT !.name = None, !.acquisition_date = None,
                      !.pixels.planes = <<>>, !.pixels.channels = <<>>]

BaseMicroscope ==
    [lot_number |-> Some("L1"), serial_number |-> None,
     manufacturer |-> Some("Zeiss")]

BaseInstrument == [id |-> "I1", microscope |-> Some(BaseMicroscope)]

BaseMeta == [instruments |-> <<>>, images |-> <<BaseImage>>]

BaseEra == [id |-> "E", start |-> Some(1000000)]

BaseInput ==
    [call |-> "convert_omero_file",
     file |-> [file |-> Some([ext |-> ".tif"]), name |-> "F",
               datasets |-> <<"D0">>],
     disk |-> [shape |-> Some(<<2, 3>>), meta |-> Some(BaseMeta)],
     stage |-> Some("S"),
     era |-> Some(BaseEra),
     dataset |-> None,
     position_from_planes |-> TRUE,
     timepoint_from_time |-> TRUE,
     channels_from_channels |-> TRUE,
     position_tolerance |-> None,
     timepoint_tolerance |-> None]

Suffixes == SupportedSuffixes \cup {".czi", ".TIFF"}

Repeat(x, n) == [i \in 1..n |-> x]

\* Control flow: every suffix, a missing file, unreadable metadata, zero to
\* MaxImages series.
ControlInputs ==
    {[BaseInput EXCEPT !.file.file = f, !.disk.meta = m] :
        f \in {None} \cup {Some([ext |-> e]) : e \in Suffixes},
        m \in {None} \cup
              {Some([instruments |-> ins, images |-> ims]) :
                  ins \in {<<>>, <<BaseInstrument>>},
                  ims \in SeqsUpTo({BaseImage, BareImage}, MaxImages)}}

\* Naming and channels: image names, channel counts, channels_from_channels.
NamedImages ==
    {[BaseImage EXCEPT !.name = n, !.pixels.channels = Repeat(BaseChannel, c)] :
        n \in {None, Some(""), Some("A")}, c \in 0..MaxChannels}

NamingInputs ==
    {[BaseInput EXCEPT !.channels_from_channels = cfc,
                       !.disk.meta = Some([instruments |-> <<>>, images |-> ims])] :
        cfc \in BOOLEAN, ims \in SeqsUpTo(NamedImages, MaxImages)}

\* Timepoints: the era, the flag, the acquisition date, the number of planes.
TimepointInputs ==
    {[BaseInput EXCEPT !.era = e, !.timepoint_from_time = tft,
                       !.timepoint_tolerance = tol,
                       !.disk.meta = Some([instruments |-> <<>>, images |->
                           <<[BaseImage EXCEPT !.acquisition_date = d,
                                               !.pixels.planes = Repeat(BasePlane, p)]>>])] :
        e \in {None, Some([BaseEra EXCEPT !.start = None]), Some(BaseEra)},
        tft \in BOOLEAN, tol \in {None, Some(1)},
        d \in {None, Some(2500000), Some(700000)}, p \in 0..MaxPlanes}

\* Positions: the stage, the flag, the tolerance, the first plane's position.
PositionedPlanes ==
    {[BasePlane EXCEPT !.position_x = x, !.position_y = y, !.position_z = z] :
        x \in {None, Some(0), Some(2)}, y \in {None, Some(3)},
        z \in {None, Some(7)}}

PositionInputs ==
    {[BaseInput EXCEPT !.stage = s, !.position_from_planes = pfp,
                       !.position_tolerance = tol,
                       !.disk.meta = Some([instruments |-> <<>>, images |->
                           <<[BaseImage EXCEPT !.pixels.planes = ps]>>])] :
        s \in {None, Some("S")}, pfp \in BOOLEAN, tol \in {None, Some(1)},
        ps \in {<<>>} \cup {<<p>> \o Repeat(OtherPlane, n) :
                               p \in PositionedPlanes, n \in 0..(MaxPlanes - 1)}}

\* Instruments: identifiers (empty, repeated), microscopes, references.
InstrumentSet ==
    {[id |-> i, microscope |-> m] :
        i \in {"", "I1", "I2"}, m \in {None, Some(BaseMicroscope)}}

InstrumentInputs ==
    {[BaseInput EXCEPT !.disk.meta = Some([instruments |-> ins, images |-> ims])] :
        ins \in SeqsUpTo(InstrumentSet, MaxInstruments),
        ims \in UNION {[1..n -> {[BaseImage EXCEPT !.instrument_ref = r] :
                                    r \in {None, Some([id |-> "I1"]),
                                           Some([id |-> "I3"])}}] : n \in 1..2}}

\* Optional metadata: every subset of the optional source fields absent.
OptionalImages ==
    {[name |-> Some("A"),
      acquisition_date |-> IF date THEN Some(2500000) ELSE None,
      instrument_ref |-> IF ref THEN Some([id |-> "I1"]) ELSE None,
      objective_settings |->
          IF obj THEN Some([correction_collar |-> Some(1), medium |-> Some("OIL")])
          ELSE None,
      imaging_environment |->
          IF env THEN Some([air_pressure |-> Some(1), co2_percent |-> None,
                            humidity |-> Some(40), temperature |-> Some(37)])
          ELSE None,
      pixels |->
          [BasePixels EXCEPT
              !.planes = <<[BasePlane EXCEPT
                  !.position_x = IF pos THEN Some(2) ELSE None,
                  !.position_y = IF pos THEN Some(3) ELSE None,
                  !.position_z = IF pos THEN Some(7) ELSE None]>>,
              !.channels = <<[name |-> IF nm THEN Some("DAPI") ELSE None,
                  emission_wavelength |-> IF wl THEN Some(460) ELSE None,
                  excitation_wavelength |-> IF wl THEN Some(350) ELSE None,
                  acquisition_mode |-> IF md THEN Some("OTHER") ELSE None,
                  color |-> IF col THEN Some(<<0, 0, 255>>) ELSE None]>>]] :
        date \in BOOLEAN, ref \in BOOLEAN, obj \in BOOLEAN, env \in BOOLEAN,
        pos \in BOOLEAN, nm \in BOOLEAN, wl \in BOOLEAN, md \in BOOLEAN,
        col \in BOOLEAN}

OptionalInputs ==
    {[BaseInput EXCEPT !.disk.meta =
          Some([instruments |-> <<BaseInstrument>>, images |-> <<img>>])] :
        img \in OptionalImages}

\* Pixel arrays: every shape of 1 to MaxNdim dimensions, or nothing readable,
\* for both operations; convert_tiff_file takes file, stage and dataset only.
Shapes == {None} \cup {Some(s) : s \in SeqsUpTo({1, 2, 3}, MaxNdim) \ {<<>>}}

ShapeInputs ==
    {[BaseInput EXCEPT !.disk.shape = s] : s \in Shapes}

TiffInputs ==
    {[BaseInput EXCEPT !.call = "convert_tiff_file", !.disk.shape = s,
                       !.dataset = d] :
        s \in Shapes, d \in {None, Some("D1")}}
    \cup
    {[BaseInput EXCEPT !.call = "convert_tiff_file", !.file.file = f] :
        f \in {None, Some([ext |-> ".czi"])}}

\* Declared sizes: a series that declares size_c, size_x and size_y, in a
\* file whose planes are a by b (in either orientation, square or not), with
\* a TIFF suffix or another one.
DeclaredInputs ==
    {[BaseInput EXCEPT
         !.file.file = Some([ext |-> e]),
         !.disk.shape = Some(IF sc = 1 THEN <<a, b>> ELSE <<sc, 1, 1, a, b>>),
         !.disk.meta = Some([instruments |-> <<>>, images |->
             <<[BaseImage EXCEPT !.pixels.size_c = sc, !.pixels.size_x = sx,
                                 !.pixels.size_y = sy]>>])] :
        e \in {".tif", ".czi"}, sc \in 1..2,
        a \in 1..MaxSide, b \in 1..MaxSide,
        sx \in 1..MaxSide, sy \in 1..MaxSide}

Inputs ==
    ControlInputs \cup NamingInputs \cup TimepointInputs \cup PositionInputs
    \cup InstrumentInputs \cup OptionalInputs \cup ShapeInputs \cup TiffInputs
    \cup DeclaredInputs

(***************************************************************************)
(* The state of one call.  Beside the inputs and the locals of the         *)
(* function it holds the state of the file handle, the log of the remote   *)
(* calls issued (each with whether it returned), and how the call ended.   *)
(***************************************************************************)
VARIABLES
    inp,            \* the arguments and the file's content; never changes
    pc,             \* where the call is
    fileOpen,       \* the handle of `with file.file as f` is held
    meta,           \* meta = bioformats_ome(f)
    instrument_map,
    k,              \* instruments the instrument loop has gone through
    it,             \* images the enumerate() of the image loop has yielded
    index,          \* the local `index`, bound by both loops; -1 while unbound
    image,
    array,
    position,
    timepoint,
    views,
    j,              \* channels the channel loop has gone through
    images,
    remote,         \* the remote calls issued so far, in order
    result,         \* the returned list, once the call returned
    error,          \* the exception that ended the call, if one did
    raisedAt        \* the step that raised it

vars ==
    <<inp, pc, fileOpen, meta, instrument_map, k, it, index, image, array,
      position, timepoint, views, j, images, remote, result, error, raisedAt>>

\* The locals of the image loop's body.
body == <<index, image, array, position, timepoint, views, j>>

EmptyMap == [x \in {} |-> None]

Init ==
    /\ inp \in Inputs
    /\ pc = "start"
    /\ fileOpen = FALSE
    /\ meta = None
    /\ instrument_map = EmptyMap
    /\ k = 0
    /\ it = 0
    /\ index = -1
    /\ image = None
    /\ array = None
    /\ position = None
    /\ timepoint = None
    /\ views = <<>>
    /\ j = 0
    /\ images = <<>>
    /\ remote = <<>>
    /\ result = None
    /\ error = None
    /\ raisedAt = "nowhere"

\* A remote call, as the service sees it; `ok` is whether it returned.
Call(fn, args, ok) == [fn |-> fn, args |-> args, ok |-> ok]

\* An exception raised inside the `with` block propagates out of the
\* function: the block is left, nothing is returned.
Raise(exc, at) ==
    /\ pc' = "failed"
    /\ error' = Some(exc)
    /\ raisedAt' = at
    /\ fileOpen' = WithExit(fileOpen)
    /\ result' = None

Continue(next) ==
    /\ pc' = next
    /\ UNCHANGED <<fileOpen, result, error, raisedAt>>

\* images = []; assert file.file, "No File Provided"; with file.file as f:
Begin(call) ==
    /\ pc = "start"
    /\ inp.call = call
    /\ images' = <<>>
    /\ IF inp.file.file = None
       THEN /\ pc' = "failed"
            /\ error' = Some("AssertionError")
            /\ raisedAt' = "start"
            /\ UNCHANGED <<fileOpen, result>>
       ELSE /\ pc' = IF call = "convert_omero_file" THEN "meta" ELSE "tiff_read"
            /\ fileOpen' = TRUE
            /\ UNCHANGED <<result, error, raisedAt>>
    /\ UNCHANGED <<inp, meta, instrument_map, k, it, body, remote>>

OmeroBegin == Begin("convert_omero_file")

\* meta = bioformats_ome(f); instrument_map = {}
ReadMeta ==
    /\ pc = "meta"
    /\ IF inp.disk.meta = None
       THEN /\ Raise("DecodeError", "meta")
            /\ UNCHANGED <<meta, instrument_map>>
       ELSE /\ meta' = inp.disk.meta
            /\ instrument_map' = EmptyMap
            /\ Continue("instruments")
    /\ UNCHANGED <<inp, k, it, body, images, remote>>

\* One turn of `for instrument in meta.instruments:`, or its end.
InstrumentLoop ==
    /\ pc = "instruments"
    /\ IF k < Len(meta[1].instruments)
       THEN LET instrument == meta[1].instruments[k + 1] IN
            IF Registers(instrument)
            THEN \E ok \in BOOLEAN :
                   /\ remote' = Append(remote,
                          Call("create_instrument", InstrumentArgs(instrument), ok))
                   /\ IF ok
                      THEN /\ instrument_map' = MapPut(instrument_map,
                                  instrument.id, InstrumentArgs(instrument))
                           /\ k' = k + 1
                           /\ Continue("instruments")
                      ELSE /\ Raise("RemoteError", "instruments")
                           /\ UNCHANGED <<instrument_map, k>>
            ELSE /\ k' = k + 1
                 /\ Continue("instruments")
                 /\ UNCHANGED <<instrument_map, remote>>
       ELSE /\ Continue("images")
            /\ UNCHANGED <<instrument_map, k, remote>>
    /\ UNCHANGED <<inp, meta, it, body, images>>

\* The head of `for index, image in enumerate(meta.images):` with the first
\* statements of its body (pixels, views = [], array = load_as_xarray(...)),
\* or the end of the loop.
NextImage ==
    /\ pc = "images"
    /\ IF it < Len(meta[1].images)
       THEN LET img == meta[1].images[it + 1]
                got == load_as_xarray(inp.file.file[1], it, img.pixels, inp.disk)
            IN  /\ it' = it + 1
                /\ index' = it
                /\ image' = Some(img)
                /\ views' = FreshViews(views)
                /\ IF got.error # None
                   THEN /\ Raise(got.error[1], "load")
                        /\ UNCHANGED array
                   ELSE /\ array' = got.array
                        /\ Continue("position")
                /\ UNCHANGED <<position, timepoint, j>>
       ELSE /\ Continue("return")
            /\ UNCHANGED <<it, body>>
    /\ UNCHANGED <<inp, meta, instrument_map, k, images, remote>>

\* position = None; timepoint = None; if stage and ...: create_position(...)
PositionStep ==
    /\ pc = "position"
    /\ timepoint' = None
    /\ IF PositionEnabled(inp, image[1].pixels)
       THEN \E ok \in BOOLEAN :
              /\ remote' = Append(remote,
                     Call("create_position", PositionArgs(inp, image[1].pixels), ok))
              /\ IF ok
                 THEN /\ position' = Some(PositionArgs(inp, image[1].pixels))
                      /\ Continue("timepoint")
                 ELSE /\ position' = None
                      /\ Raise("RemoteError", "position")
       ELSE /\ position' = None
            /\ Continue("timepoint")
            /\ UNCHANGED remote
    /\ UNCHANGED <<inp, meta, instrument_map, k, it, index, image, array,
                   views, j, images>>

\* if era and ...: assert era.start; first_plane = pixels.planes[0];
\* timepoint = create_timepoint(...)
TimepointStep ==
    /\ pc = "timepoint"
    /\ IF TimepointEnabled(inp, image[1])
       THEN IF inp.era[1].start = None
            THEN /\ Raise("AssertionError", "timepoint")
                 /\ UNCHANGED <<timepoint, remote>>
            ELSE IF Len(image[1].pixels.planes) = 0
            THEN /\ Raise("IndexError", "timepoint")
                 /\ UNCHANGED <<timepoint, remote>>
            ELSE \E ok \in BOOLEAN :
                   /\ remote' = Append(remote,
                          Call("create_timepoint", TimepointArgs(inp, image[1]), ok))
                   /\ IF ok
                      THEN /\ timepoint' = Some(TimepointArgs(inp, image[1]))
                           /\ Continue("channels")
                      ELSE /\ Raise("RemoteError", "timepoint")
                           /\ UNCHANGED timepoint
       ELSE /\ Continue("channels")
            /\ UNCHANGED <<timepoint, remote>>
    /\ j' = 0
    /\ UNCHANGED <<inp, meta, instrument_map, k, it, index, image, array,
                   position, views, images>>

\* One turn of `for index, c in enumerate(pixels.channels):` under
\* `if channels_from_channels:`, or the end of that statement.
ChannelLoop ==
    /\ pc = "channels"
    /\ IF inp.channels_from_channels /\ j < Len(image[1].pixels.channels)
       THEN LET c == ChannelArgs(image[1].pixels.channels[j + 1], j) IN
            \E ok \in BOOLEAN :
              /\ index' = j
              /\ remote' = Append(remote, Call("create_channel", c, ok))
              /\ IF ok
                 THEN /\ views' = Append(views, ViewInput(j, c))
                      /\ j' = j + 1
                      /\ Continue("channels")
                 ELSE /\ Raise("RemoteError", "channels")
                      /\ UNCHANGED <<views, j>>
       ELSE /\ Continue("submit")
            /\ UNCHANGED <<index, views, j, remote>>
    /\ UNCHANGED <<inp, meta, instrument_map, k, it, image, array, position,
                   timepoint, images>>

\* The arguments of the from_xarray call of convert_omero_file.  `series` is
\* not an argument: it records which image of the file the call is made for.
OmeroRepresentation ==
    [series |-> it - 1,
     array |-> array[1],
     name |-> DisplayName(inp.file, image[1], index),
     datasets |-> Datasets(inp),
     file_origins |-> <<inp.file.name>>,
     tags |-> <<"converted">>,
     views |-> views,
     omero |-> OmeroRepresentationInput(image[1], instrument_map, position,
                                        timepoint)]

\* rep = from_xarray(...); images.append(rep).  The handle the service
\* returns is named by the number of the remote call that created it.
Submit ==
    /\ pc = "submit"
    /\ IF OmeroInputError(image[1]) # None
       THEN /\ Raise(OmeroInputError(image[1])[1], "submit")
            /\ UNCHANGED <<images, remote>>
       ELSE \E ok \in BOOLEAN :
              /\ remote' = Append(remote, Call("from_xarray", OmeroRepresentation, ok))
              /\ IF ok
                 THEN /\ images' = ImagesAppend(images, [rep |-> Len(remote) + 1])
                      /\ Continue("images")
                 ELSE /\ Raise("RemoteError", "submit")
                      /\ UNCHANGED images
    /\ UNCHANGED <<inp, meta, instrument_map, k, it, body>>

\* return images, leaving the `with` block.
Return ==
    /\ pc = "return"
    /\ pc' = "done"
    /\ fileOpen' = WithExit(fileOpen)
    /\ result' = Some(images)
    /\ UNCHANGED <<inp, meta, instrument_map, k, it, body, images, remote,
                   error, raisedAt>>

TiffBegin == Begin("convert_tiff_file")

\* image = tifffile.imread(f); image = image.reshape(...); array = xr.DataArray(...)
TiffRead ==
    /\ pc = "tiff_read"
    /\ LET got == ReadStack(inp.disk) IN
       IF got.error # None
       THEN /\ Raise(got.error[1], "tiff_read")
            /\ UNCHANGED array
       ELSE /\ array' = got.array
            /\ Continue("tiff_submit")
    /\ UNCHANGED <<inp, meta, instrument_map, k, it, index, image, position,
                   timepoint, views, j, images, remote>>

\* The arguments of the from_xarray call of convert_tiff_file.
TiffRepresentation ==
    [array |-> array[1],
     name |-> <<inp.file.name>>,
     datasets |-> Datasets(inp),
     file_origins |-> <<inp.file.name>>,
     tags |-> <<"converted">>]

\* images.append(from_xarray(array, name=file.name, ...))
TiffSubmit ==
    /\ pc = "tiff_submit"
    /\ \E ok \in BOOLEAN :
         /\ remote' = Append(remote, Call("from_xarray", TiffRepresentation, ok))
         /\ IF ok
            THEN /\ images' = ImagesAppend(images, [rep |-> Len(remote) + 1])
                 /\ Continue("return")
            ELSE /\ Raise("RemoteError", "tiff_submit")
                 /\ UNCHANGED images
    /\ UNCHANGED <<inp, meta, instrument_map, k, it, body>>

Next ==
    \/ OmeroBegin
    \/ ReadMeta
    \/ InstrumentLoop
    \/ NextImage
    \/ PositionStep
    \/ TimepointStep
    \/ ChannelLoop
    \/ Submit
    \/ Return
    \/ TiffBegin
    \/ TiffRead
    \/ TiffSubmit

Spec == Init /\ [][Next]_vars

Terminal == pc \in {"done", "failed"}

(***************************************************************************)
(* Vocabulary of the properties.                                           *)
(***************************************************************************)
IsOmero == inp.call = "convert_omero_file"

\* The series of the file, once the metadata is readable.
SourceImages == inp.disk.meta[1].images

\* The from_xarray calls issued so far.
Submissions == {n \in DOMAIN remote : remote[n].fn = "from_xarray"}

\* The source image a from_xarray call of convert_omero_file was made for.
ImageOf(n) == SourceImages[remote[n].args.series + 1]

CallsOf(fn) == {n \in DOMAIN remote : remote[n].fn = fn}

\* The instrument loop has run to its end.
AfterInstrumentLoop ==
    \/ pc \in {"images", "position", "timepoint", "channels", "submit",
               "return", "done"}
    \/ pc = "failed" /\ raisedAt \in {"load", "position", "timepoint",
                                       "channels", "submit"}

(***************************************************************************)
(* C1: a call of convert_omero_file on a file with N series either returns *)
(* exactly N handles, the i-th created by the from_xarray call made for    *)
(* the i-th series with that series' metadata, or fails and returns        *)
(* nothing; nothing is returned before the call ends.                      *)
(***************************************************************************)
C1_AllOrNothing ==
    IsOmero =>
      /\ pc = "done" =>
           /\ result # None
           /\ Len(result[1]) = Len(SourceImages)
           /\ \A i \in DOMAIN result[1] :
                LET n == result[1][i].rep IN
                  /\ n \in Submissions
                  /\ remote[n].ok
                  /\ remote[n].args.series = i - 1
                  /\ remote[n].args.omero.acquisitionDate
                       = SourceImages[i].acquisition_date
                  /\ Len(remote[n].args.omero.planes)
                       = Len(SourceImages[i].pixels.planes)
      /\ pc # "done" => result = None

\* A call that returned two handles made from two different series.
C1_Witness ==
    /\ IsOmero
    /\ pc = "done"
    /\ Len(result[1]) = 2
    /\ SourceImages[1] # SourceImages[2]

(***************************************************************************)
(* C2: in both operations the file handle is released when the call has    *)
(* ended, however it ended, and is held only inside the with block.        *)
(***************************************************************************)
C2_HandleReleased ==
    /\ Terminal => ~fileOpen
    /\ fileOpen => pc \notin {"start", "done", "failed"}

\* A call that acquired the handle and ended on the failed era-start
\* assertion.
C2_Witness ==
    /\ pc = "failed"
    /\ raisedAt = "timepoint"
    /\ error = Some("AssertionError")
    /\ ~fileOpen

(***************************************************************************)
(* C3: every from_xarray call of convert_omero_file carries the name       *)
(* file.name - image.name when the image has a name, and otherwise         *)
(* file.name - (k) with k the index of the series in the file.             *)
(***************************************************************************)
C3_DisplayName ==
    IsOmero =>
      \A n \in Submissions :
        remote[n].args.name =
          IF TruthyStr(ImageOf(n).name)
          THEN <<inp.file.name, " - ", ImageOf(n).name[1]>>
          ELSE <<inp.file.name, " - ", "(">>
                 \o DecTokens(remote[n].args.series) \o <<")">>

(***************************************************************************)
(* C4: a timepoint is attached to an image's submission exactly when an    *)
(* era with a start is supplied, timepoint_from_time is true and the image *)
(* has an acquisition date, whatever the number of planes; the derivation  *)
(* step raises nothing of its own (a failing remote call and the era-start *)
(* assertion aside).                                                       *)
(***************************************************************************)
C4_TimepointIff ==
    IsOmero =>
      /\ \A n \in Submissions :
           (remote[n].args.omero.timepoints # None)
             <=> /\ inp.era # None
                 /\ inp.era[1].start # None
                 /\ inp.timepoint_from_time
                 /\ ImageOf(n).acquisition_date # None
      /\ raisedAt = "timepoint" =>
           error \in {Some("RemoteError"), Some("AssertionError")}

(***************************************************************************)
(* C5: absent optional metadata never makes convert_omero_file fail: the   *)
(* submission step raises only when the remote call itself fails, and the  *)
(* payload maps each absent field to an absent field.                      *)
(***************************************************************************)
C5_AbsentIsNotAnError ==
    IsOmero =>
      /\ raisedAt = "submit" => error = Some("RemoteError")
      /\ \A n \in Submissions :
           LET o == remote[n].args.omero IN
             /\ o.acquisitionDate = ImageOf(n).acquisition_date
             /\ ImageOf(n).instrument_ref = None => o.instrument = None
             /\ ImageOf(n).objective_settings = None => o.objectiveSettings = None
             /\ ImageOf(n).imaging_environment = None => o.imagingEnvironment = None

(***************************************************************************)
(* C6: a position is created for an image exactly when a stage is          *)
(* supplied, position_from_planes is true and the image has a plane; it    *)
(* carries the first plane's x and y (0 for a missing one), z = 1 and the  *)
(* caller's tolerance; otherwise the submission carries no positions.      *)
(***************************************************************************)
ExpectedPosition(img) ==
    LET p == img.pixels.planes[1] IN
      [stage |-> inp.stage[1],
       x |-> IF p.position_x = None THEN 0 ELSE p.position_x[1],
       y |-> IF p.position_y = None THEN 0 ELSE p.position_y[1],
       z |-> 1,
       tolerance |-> inp.position_tolerance]

PositionWanted(img) ==
    inp.stage # None /\ inp.position_from_planes /\ Len(img.pixels.planes) >= 1

C6_PositionIff ==
    IsOmero =>
      /\ pc \in {"timepoint", "channels", "submit"} =>
           /\ position # None <=> PositionWanted(image[1])
           /\ position # None => position[1] = ExpectedPosition(image[1])
      /\ \A n \in Submissions :
           remote[n].args.omero.positions =
             IF PositionWanted(ImageOf(n))
             THEN Some(<<ExpectedPosition(ImageOf(n))>>)
             ELSE None
      /\ Cardinality(CallsOf("create_position")) <= it
      /\ \A n \in CallsOf("create_position") :
           \E i \in 1..it :
             /\ PositionWanted(SourceImages[i])
             /\ remote[n].args = ExpectedPosition(SourceImages[i])

\* A submission with a position made from a first plane without x, with a
\* positionZ other than 1, a second plane and a tolerance.
C6_Witness ==
    /\ IsOmero
    /\ \E n \in Submissions :
         /\ remote[n].args.omero.positions # None
         /\ remote[n].args.omero.positions[1][1].x = 0
         /\ remote[n].args.omero.positions[1][1].y = 3
         /\ remote[n].args.omero.positions[1][1].tolerance = Some(1)
         /\ Len(ImageOf(n).pixels.planes) = 2
         /\ ImageOf(n).pixels.planes[1].position_x = None
         /\ ImageOf(n).pixels.planes[1].position_z = Some(7)

(***************************************************************************)
(* C7: every submission of convert_omero_file carries one channel record   *)
(* per source channel of its image; with channels_from_channels it carries *)
(* exactly one view per source channel of that image, the i-th with        *)
(* cMin = cMax = i and made for the i-th channel, and without it no view.  *)
(***************************************************************************)
C7_ChannelsAndViews ==
    IsOmero =>
      \A n \in Submissions :
        LET a == remote[n].args
            cs == ImageOf(n).pixels.channels
        IN  /\ Len(a.omero.channels) = Len(cs)
            /\ \A i \in DOMAIN cs : a.omero.channels[i].name = cs[i].name
            /\ IF inp.channels_from_channels
               THEN /\ Len(a.views) = Len(cs)
                    /\ \A i \in DOMAIN a.views :
                         /\ a.views[i].cMin = i - 1
                         /\ a.views[i].cMax = i - 1
                         /\ a.views[i].channel.emission_wavelength
                              = cs[i].emission_wavelength
               ELSE a.views = <<>>

\* The second series of a file submitted with its own two views after a
\* first series that had one.
C7_Witness ==
    /\ IsOmero
    /\ inp.channels_from_channels
    /\ \E n \in Submissions :
         /\ remote[n].args.series = 1
         /\ Len(remote[n].args.views) = 2
         /\ Len(SourceImages[1].pixels.channels) = 1

(***************************************************************************)
(* C8: after the instrument loop the lookup has a key for exactly the      *)
(* identifiers of the source instruments that have a non-empty one, one    *)
(* creation call having been made per such instrument; a submission's      *)
(* instrument is the lookup's entry for the image's reference, and null    *)
(* when the image has no reference or the identifier is not in the lookup, *)
(* so with zero instruments it is always null.                             *)
(***************************************************************************)
SourceInstruments == inp.disk.meta[1].instruments

Identified == {i \in DOMAIN SourceInstruments : SourceInstruments[i].id # ""}

C8_InstrumentLookup ==
    IsOmero =>
      /\ AfterInstrumentLoop =>
           /\ DOMAIN instrument_map = {SourceInstruments[i].id : i \in Identified}
           /\ Cardinality(CallsOf("create_instrument")) = Cardinality(Identified)
           /\ \A n \in CallsOf("create_instrument") : remote[n].args.name # ""
           /\ SourceInstruments = <<>> => instrument_map = <<>>
      /\ \A n \in Submissions :
           LET ref == ImageOf(n).instrument_ref
               got == remote[n].args.omero.instrument
           IN  /\ ref = None => got = None
               /\ SourceInstruments = <<>> => got = None
               /\ ref # None =>
                    IF \E i \in Identified : SourceInstruments[i].id = ref[1].id
                    THEN got # None /\ got[1].name = ref[1].id
                    ELSE got = None

\* A file with an instrument without identifier and one with: a submission
\* whose reference is not in the lookup, after one whose reference is.
C8_Witness ==
    /\ IsOmero
    /\ inp.disk.meta # None
    /\ Len(SourceInstruments) = 2
    /\ Cardinality(Identified) = 1
    /\ \E n, m \in Submissions :
         /\ n < m
         /\ remote[n].args.omero.instrument # None
         /\ ImageOf(m).instrument_ref # None
         /\ remote[m].args.omero.instrument = None

(***************************************************************************)
(* C9: a pixel array of 2 to 5 dimensions and shape s is normalised, in    *)
(* load_as_xarray and in convert_tiff_file, to an array of exactly 5       *)
(* dimensions named c, t, z, y, x whose shape is 5 - n ones followed by s  *)
(* in its order.                                                           *)
(***************************************************************************)
C9_PadsOnTheLeft ==
    (array # None /\ inp.disk.shape # None) =>
      LET s == inp.disk.shape[1]
          n == Len(s)
          out == array[1].shape
      IN  (2 <= n /\ n <= 5) =>
            /\ Len(out) = 5
            /\ array[1].dims = <<"c", "t", "z", "y", "x">>
            /\ \A i \in 1..(5 - n) : out[i] = 1
            /\ \A i \in 1..n : out[5 - n + i] = s[i]
            /\ \A m \in Submissions : remote[m].args.array = array[1]

\* convert_tiff_file submitting the (t, z, y, x) stack of shape (2, 3, 3, 2)
\* as (1, 2, 3, 3, 2).
C9_Witness ==
    /\ inp.call = "convert_tiff_file"
    /\ inp.disk.shape = Some(<<2, 3, 3, 2>>)
    /\ \E m \in Submissions : remote[m].args.array.shape = <<1, 2, 3, 3, 2>>

(***************************************************************************)
(* C10 as stated: whenever convert_omero_file is given a file whose suffix *)
(* is not supported, the call ends in NotImplementedError with nothing     *)
(* submitted or returned, for every number of series (a failing decoder or *)
(* remote call aside).                                                     *)
(***************************************************************************)
Unsupported ==
    /\ IsOmero
    /\ inp.file.file # None
    /\ inp.file.file[1].ext \notin {".stk", ".tif", ".tiff", ".TIF"}

C10_Original ==
    (Unsupported /\ Terminal
       /\ error \notin {Some("DecodeError"), Some("RemoteError")}) =>
      /\ error = Some("NotImplementedError")
      /\ Submissions = {}
      /\ result = None

(***************************************************************************)
(* C10 amended: given a file whose suffix is not supported,                *)
(* convert_omero_file never submits or returns a representation and makes  *)
(* no remote call but create_instrument; with at least one series it ends  *)
(* in NotImplementedError, raised by the load of the first series (a       *)
(* failing metadata read or instrument creation aside); with zero series   *)
(* nothing is loaded and it returns the empty list.                        *)
(***************************************************************************)
C10_UnsupportedSuffix ==
    Unsupported =>
      /\ Submissions = {}
      /\ \A n \in DOMAIN remote : remote[n].fn = "create_instrument"
      /\ array = None
      /\ pc = "failed" =>
           /\ result = None
           /\ \/ raisedAt = "meta" /\ error = Some("DecodeError")
              \/ raisedAt = "instruments" /\ error = Some("RemoteError")
              \/ /\ raisedAt = "load"
                 /\ error = Some("NotImplementedError")
                 /\ it = 1
                 /\ Len(SourceImages) >= 1
      /\ pc = "done" =>
           /\ Len(SourceImages) = 0
           /\ result = Some(<<>>)
           /\ error = None

\* A two-series file of an unsupported suffix: rejected at the first series,
\* after the file's instrument was created.
C10_Witness ==
    /\ Unsupported
    /\ pc = "failed"
    /\ error = Some("NotImplementedError")
    /\ Len(SourceImages) = 2
    /\ CallsOf("create_instrument") # {}

(***************************************************************************)
(* C11 as stated: in the plane-indexed path, which a file without a TIFF   *)
(* suffix would take, the series is loaded into a buffer of shape          *)
(* (size_c, size_t, size_z, size_x, size_y), a plane being transposed      *)
(* exactly when its shape is (size_y, size_x) and size_x # size_y.         *)
(***************************************************************************)
\* load_as_xarray has been called for the current series.
Loaded ==
    \/ pc \in {"position", "timepoint", "channels", "submit"}
    \/ pc = "failed" /\ raisedAt = "load"

\* The file holds a readable pixel array of at least two axes.
HasPlanes == inp.disk.shape # None /\ Len(inp.disk.shape[1]) >= 2

\* The shape of the planes in the file: its two last axes.
PlaneShape ==
    LET s == inp.disk.shape[1] IN <<s[Len(s) - 1], s[Len(s)]>>

\* The claim's condition for the transpose correction.
SwappedPlane(pixels) ==
    /\ PlaneShape = <<pixels.size_y, pixels.size_x>>
    /\ pixels.size_x # pixels.size_y

BufferShape(pixels) ==
    <<pixels.size_c, pixels.size_t, pixels.size_z, pixels.size_x, pixels.size_y>>

====
